---- MODULE Spec2Model ----
(***************************************************************************)
(* Avast scan-daemon client (package avast): the command vocabulary, the   *)
(* option encoders, the textproto pipeline the client drives, the simple   *)
(* and the streaming (SCAN) response parsers, and the public methods.      *)
(*                                                                         *)
(* A string is a sequence of one-character strings, so that prefix tests,  *)
(* slices and the result pattern are computed character by character.      *)
(***************************************************************************)
EXTENDS Integers, Sequences, FiniteSets, TLC

(***************************************************************************)
(* strings / strconv                                                       *)
(***************************************************************************)
HasPrefix(s, prefix) ==
    /\ Len(s) >= Len(prefix)
    /\ SubSeq(s, 1, Len(prefix)) = prefix

HasSuffix(s, suffix) ==
    /\ Len(s) >= Len(suffix)
    /\ SubSeq(s, Len(s) - Len(suffix) + 1, Len(s)) = suffix

TrimPrefix(s, prefix) ==
    IF HasPrefix(s, prefix) THEN SubSeq(s, Len(prefix) + 1, Len(s)) ELSE s

\* s[n:] of Go: a run-time panic when n > len(s).
SliceFrom(s, n) ==
    IF n > Len(s)
    THEN [panic |-> TRUE, s |-> <<>>]
    ELSE [panic |-> FALSE, s |-> SubSeq(s, n + 1, Len(s))]

\* index (1-based) of the first occurrence of character ch in s, 0 when absent
RECURSIVE IndexFrom(_, _, _)
IndexFrom(s, ch, i) ==
    IF i > Len(s) THEN 0
    ELSE IF s[i] = ch THEN i
    ELSE IndexFrom(s, ch, i + 1)

Index(s, ch) == IndexFrom(s, ch, 1)

\* strings.SplitN(s, sep, 2) for a one-character separator
SplitN2(s, sep) ==
    LET i == Index(s, sep)
    IN  IF i = 0 THEN <<s>>
        ELSE <<SubSeq(s, 1, i - 1), SubSeq(s, i + 1, Len(s))>>

Digits == <<"0", "1", "2", "3", "4", "5", "6", "7", "8", "9">>

IsDigit(ch) == \E d \in 1..10 : Digits[d] = ch

DigitVal(ch) == (CHOOSE d \in 1..10 : Digits[d] = ch) - 1

RECURSIVE DecVal(_)
DecVal(s) ==
    IF s = <<>> THEN 0
    ELSE 10 * DecVal(SubSeq(s, 1, Len(s) - 1)) + DigitVal(s[Len(s)])

\* strconv.Atoi: an optional sign, then one or more decimal digits
Atoi(s) ==
    LET signed == Len(s) >= 1 /\ s[1] \in {"+", "-"}
        body   == IF signed THEN Tail(s) ELSE s
    IN  IF body = <<>> \/ \E i \in 1..Len(body) : ~IsDigit(body[i])
        THEN [ok |-> FALSE, v |-> 0]
        ELSE [ok |-> TRUE,
              v  |-> IF signed /\ s[1] = "-" THEN 0 - DecVal(body)
                     ELSE DecVal(body)]

(***************************************************************************)
(* constants of the package                                                *)
(***************************************************************************)
excludeOKResp == <<"2", "0", "0", " ", "E", "X", "C", "L", "U", "D", "E", " ", "O", "K">>
scanOkResp == <<"2", "0", "0", " ", "S", "C", "A", "N", " ", "O", "K">>
urlBlockedResp == <<"U", "R", "L", " ", "b", "l", "o", "c", "k", "e", "d">>

Scan == 1
Vps == 2
Pack == 3
Flags == 4
Sensitivity == 5
Exclude == 6
CheckURL == 7
Quit == 8

CommandNames ==
    << <<>>, <<"S", "C", "A", "N">>, <<"V", "P", "S">>, <<"P", "A", "C", "K">>, <<"F", "L", "A", "G", "S">>, <<"S", "E", "N", "S", "I", "T", "I", "V", "I", "T", "Y">>,
       <<"E", "X", "C", "L", "U", "D", "E">>, <<"C", "H", "E", "C", "K", "U", "R", "L">>, <<"Q", "U", "I", "T">> >>

\* a Command.String whose table has no entry for 0
CommandStringFromOne(c) ==
    IF c < Scan \/ c > Quit THEN <<>> ELSE CommandNames[c]

\* Command.String: the table is indexed from 0 in the source
CommandString(c) ==
    IF c < Scan \/ c > Quit THEN <<>> ELSE CommandNames[c + 1]

CommandLen(c) == Len(CommandString(c))

SensiNames ==
    << <<>>, <<"w", "o", "r", "m">>, <<"t", "r", "o", "j", "a", "n">>, <<"a", "d", "w", "a", "r", "e">>, <<"s", "p", "y", "w", "a", "r", "e">>, <<"d", "r", "o", "p", "p", "e", "r">>, <<"k", "i", "t">>,
       <<"j", "o", "k", "e">>, <<"d", "a", "n", "g", "e", "r", "o", "u", "s">>, <<"d", "i", "a", "l", "e", "r">>, <<"r", "o", "o", "t", "k", "i", "t">>, <<"e", "x", "p", "l", "o", "i", "t">>, <<"p", "u", "p">>,
       <<"s", "u", "s", "p", "i", "c", "i", "o", "u", "s">>, <<"p", "u", "b", "e">> >>

Worm == 1
Pube == 14

SensiString(so) ==
    IF so < Worm \/ so > Pube THEN <<>> ELSE SensiNames[so + 1]

SensiEnable(so) == <<"+">> \o SensiString(so)
SensiDisable(so) == <<"-">> \o SensiString(so)

FlagNames == << <<>>, <<"f", "u", "l", "l", "f", "i", "l", "e", "s">>, <<"a", "l", "l", "f", "i", "l", "e", "s">>, <<"s", "c", "a", "n", "d", "e", "v", "i", "c", "e", "s">> >>

FullFiles == 1
ScanDevices == 3

FlagString(f) ==
    IF f < FullFiles \/ f > ScanDevices THEN <<>> ELSE FlagNames[f + 1]

FlagEnable(f) == <<"+">> \o FlagString(f)
FlagDisable(f) == <<"-">> \o FlagString(f)

PackNames ==
    << <<>>, <<"m", "i", "m", "e">>, <<"z", "i", "p">>, <<"a", "r", "j">>, <<"r", "a", "r">>, <<"c", "a", "b">>, <<"t", "a", "r">>, <<"g", "z">>,
       <<"b", "z", "i", "p", "2">>, <<"a", "c", "e">>, <<"a", "r", "c">>, <<"z", "o", "o">>, <<"l", "h", "a", "r", "c">>, <<"c", "h", "m">>, <<"c", "p", "i", "o">>, <<"r", "p", "m">>,
       <<"7", "z", "i", "p">>, <<"i", "s", "o">>, <<"t", "n", "e", "f">>, <<"d", "b", "x">>, <<"s", "y", "s">>, <<"o", "l", "e">>, <<"e", "x", "e", "c">>,
       <<"w", "i", "n", "e", "x", "e", "c">>, <<"i", "n", "s", "t", "a", "l", "l">>, <<"d", "m", "g">> >>

Mime == 1
Dmg == 25

PackString(p) ==
    IF p < Mime \/ p > Dmg THEN <<>> ELSE PackNames[p + 1]

PackEnable(p) == <<"+">> \o PackString(p)
PackDisable(p) == <<"-">> \o PackString(p)

(***************************************************************************)
(* errors and results                                                      *)
(***************************************************************************)
NoErr == [kind |-> "nil", line |-> <<>>]
WriteErr == [kind |-> "write", line |-> <<>>]
ReadErr == [kind |-> "read", line |-> <<>>]
\* textproto.ProtocolError / *textproto.Error for a status line
ProtoErr(l) == [kind |-> "proto", line |-> l]
\* fmt.Errorf(invalidRespErr, s)
InvalidRespErr(s) == [kind |-> "invalid", line |-> s]

\* what a public method hands back: err, and the int, string or bool value
Ret(err, v, s, b) == [err |-> err, v |-> v, s |-> s, b |-> b]
RetErr(err) == Ret(err, 0, <<>>, FALSE)
NoRet == RetErr(NoErr)

\* a ReadCodeLine that takes any well-formed code for the expected one
ReadCodeLineAnyCode(line, expectCode) ==
    IF Len(line) < 4 \/ line[4] \notin {" ", "-"}
    THEN FALSE
    ELSE LET code == Atoi(SubSeq(line, 1, 3))
         IN  IF ~code.ok \/ code.v < 100 THEN FALSE
             ELSE line[4] # "-"

(***************************************************************************)
(* textproto.Reader.ReadCodeLine(expectCode), as basicCmd, fileCmd and     *)
(* NewClient call it with a three-digit expectCode: TRUE when the line is  *)
(* accepted.  parseCodeLine: at least 4 characters, the 4th a space or a   *)
(* dash, the first three an integer >= 100; then the code must equal       *)
(* expectCode, and a continuation line (dash) is refused.                  *)
(***************************************************************************)
ReadCodeLine(line, expectCode) ==
    IF Len(line) < 4 \/ line[4] \notin {" ", "-"}
    THEN FALSE
    ELSE LET code == Atoi(SubSeq(line, 1, 3))
         IN  IF ~code.ok \/ code.v < 100 THEN FALSE
             ELSE IF code.v # expectCode THEN FALSE
             ELSE line[4] # "-"

(***************************************************************************)
(* responseRe.FindStringSubmatch:                                          *)
(*   ^SCAN ([^\t]+)\t(?:\[([+LE])\])(\d\.\d)(?:\t(.+))?$                   *)
(* The filename cannot hold a tab, so it ends at the first tab.            *)
(***************************************************************************)
NoMatch ==
    [ok |-> FALSE, filename |-> <<>>, status |-> "", depth |-> <<>>,
     signature |-> <<>>]

FindStringSubmatch(l) ==
    IF ~HasPrefix(l, <<"S", "C", "A", "N", " ">>) THEN NoMatch
    ELSE
    LET rest == SubSeq(l, 6, Len(l))
        t    == Index(rest, "\t")
        tl   == SubSeq(rest, t + 1, Len(rest))
    IN  IF t < 2 \/ Len(tl) < 6 THEN NoMatch
        ELSE IF ~ /\ tl[1] = "["
                  /\ tl[2] \in {"+", "L", "E"}
                  /\ tl[3] = "]"
                  /\ IsDigit(tl[4])
                  /\ tl[5] = "."
                  /\ IsDigit(tl[6])
             THEN NoMatch
        ELSE IF Len(tl) > 6 /\ (tl[7] # "\t" \/ Len(tl) < 8) THEN NoMatch
        ELSE [ok |-> TRUE,
              filename |-> SubSeq(rest, 1, t - 1),
              status |-> tl[2],
              depth |-> SubSeq(tl, 4, 6),
              signature |-> SubSeq(tl, 8, Len(tl))]

Response(fn, item, sig, st, inf, raw) ==
    [Filename |-> fn, ArchiveItem |-> item, Signature |-> sig,
     Status |-> st, Infected |-> inf, Raw |-> raw]

\* infected taken for "not clean"
InfectedNotClean(mb) == mb.status # "+"

\* rs.Infected = mb[2] == "L"
Infected(mb) == mb.status = "L"

\* the prefix stripped whatever the status
SignatureTrimmed(mb) == TrimPrefix(mb.signature, <<"0", " ">>)

\* the Signature assignment of fileCmd: the "0 " prefix goes when infected
SignatureOf(mb) ==
    IF Infected(mb) THEN TrimPrefix(mb.signature, <<"0", " ">>)
    ELSE mb.signature

\* the field split at its first pipe whatever the depth
ArchiveSplitAnyDepth(mb) ==
    LET pts == SplitN2(mb.filename, "|")
    IN  IF Len(pts) < 2
        THEN [panic |-> FALSE, Filename |-> mb.filename, ArchiveItem |-> <<>>]
        ELSE [panic |-> FALSE, Filename |-> pts[1], ArchiveItem |-> pts[2]]

\* Filename and ArchiveItem: the whole field at depth "0.", else the field
\* split at its first pipe; pts[1] is out of range when there is no pipe
ArchiveSplit(mb) ==
    IF HasPrefix(mb.depth, <<"0", ".">>)
    THEN [panic |-> FALSE, Filename |-> mb.filename, ArchiveItem |-> <<>>]
    ELSE LET pts == SplitN2(mb.filename, "|")
         IN  IF Len(pts) < 2
             THEN [panic |-> TRUE, Filename |-> pts[1], ArchiveItem |-> <<>>]
             ELSE [panic |-> FALSE, Filename |-> pts[1],
                   ArchiveItem |-> pts[2]]

\* the new Response put first
PrependResponse(r, rs) == <<rs>> \o r

\* r = append(r, &rs)
AppendResponse(r, rs) == Append(r, rs)

\* the malformed line swallowed
SoftErrDropped(l, gerr) == gerr

\* a soft error that is kept once set
SoftErrFirst(l, gerr) == IF gerr = NoErr THEN InvalidRespErr(l) ELSE gerr

\* gerr = fmt.Errorf(invalidRespErr, l): the last malformed line wins
SoftErr(l, gerr) == InvalidRespErr(l)

(***************************************************************************)
(* One turn of the read loop of fileCmd on line l, with r and gerr as they *)
(* stand: brk when the loop ends, panic when pts[1] is out of range.       *)
(***************************************************************************)
ScanStep(brk, panic, r, gerr) ==
    [brk |-> brk, panic |-> panic, r |-> r, gerr |-> gerr]

fileCmdLine(l, r, gerr) ==
    IF HasPrefix(l, CommandString(Scan))
    THEN LET mb == FindStringSubmatch(l)
             sp == ArchiveSplit(mb)
         IN  IF ~mb.ok
             THEN ScanStep(FALSE, FALSE, r, SoftErr(l, gerr))
             ELSE IF sp.panic
             THEN ScanStep(FALSE, TRUE, r, gerr)
             ELSE ScanStep(FALSE, FALSE,
                      AppendResponse(r,
                          Response(sp.Filename, sp.ArchiveItem,
                                   SignatureOf(mb), mb.status, Infected(mb),
                                   l)),
                      gerr)
    ELSE IF l = scanOkResp
    THEN ScanStep(TRUE, FALSE, r, gerr)
    ELSE ScanStep(FALSE, FALSE, r, SoftErr(l, gerr))

\* after the loop: the soft error surfaces when no read failed
fileCmdErr(err, gerr) == IF err = NoErr /\ gerr # NoErr THEN gerr ELSE err

(***************************************************************************)
(* The public methods: what each makes of basicCmd's (s, err).            *)
(* panic: the method indexed past the end of s.                            *)
(***************************************************************************)
Decoded(panic, ret) == [panic |-> panic, ret |-> ret]

\* Vps that parses what follows the token, separator included
VpsDecodeFromToken(s, err) ==
    IF err # NoErr THEN Decoded(FALSE, RetErr(err))
    ELSE IF ~HasPrefix(s, CommandString(Vps))
    THEN Decoded(FALSE, RetErr(InvalidRespErr(s)))
    ELSE IF ~Atoi(SliceFrom(s, 3).s).ok
    THEN Decoded(FALSE, RetErr(InvalidRespErr(s)))
    ELSE Decoded(FALSE, Ret(NoErr, Atoi(SliceFrom(s, 3).s).v, <<>>, FALSE))

VpsDecode(s, err) ==
    IF err # NoErr THEN Decoded(FALSE, RetErr(err))
    ELSE IF ~HasPrefix(s, CommandString(Vps))
    THEN Decoded(FALSE, RetErr(InvalidRespErr(s)))
    ELSE LET t == SliceFrom(s, 4)
         IN  IF t.panic THEN Decoded(TRUE, NoRet)
             ELSE IF ~Atoi(t.s).ok
             THEN Decoded(FALSE, RetErr(InvalidRespErr(s)))
             ELSE Decoded(FALSE, Ret(NoErr, Atoi(t.s).v, <<>>, FALSE))

\* getters that skip the separator as well
GetDecodeSkipSeparator(cmd, s, err) ==
    IF err # NoErr THEN Decoded(FALSE, RetErr(err))
    ELSE IF ~HasPrefix(s, CommandString(cmd))
    THEN Decoded(FALSE, RetErr(InvalidRespErr(s)))
    ELSE LET t == SliceFrom(s, CommandLen(cmd) + 1)
         IN  IF t.panic THEN Decoded(TRUE, NoRet)
             ELSE Decoded(FALSE, Ret(NoErr, 0, t.s, FALSE))

\* GetPack, GetFlags, GetSensitivity: s[cmd.Len():]
GetDecode(cmd, s, err) ==
    IF err # NoErr THEN Decoded(FALSE, RetErr(err))
    ELSE IF ~HasPrefix(s, CommandString(cmd))
    THEN Decoded(FALSE, RetErr(InvalidRespErr(s)))
    ELSE LET t == SliceFrom(s, CommandLen(cmd))
         IN  IF t.panic THEN Decoded(TRUE, NoRet)
             ELSE Decoded(FALSE, Ret(NoErr, 0, t.s, FALSE))

\* GetExclude that keeps the separator
GetExcludeDecodeFromToken(s, err) ==
    IF err # NoErr THEN Decoded(FALSE, RetErr(err))
    ELSE IF s = <<>> THEN Decoded(FALSE, NoRet)
    ELSE IF ~HasPrefix(s, CommandString(Exclude))
    THEN Decoded(FALSE, RetErr(InvalidRespErr(s)))
    ELSE Decoded(FALSE, Ret(NoErr, 0, SliceFrom(s, CommandLen(Exclude)).s,
                            FALSE))

GetExcludeDecode(s, err) ==
    IF err # NoErr THEN Decoded(FALSE, RetErr(err))
    ELSE IF s = <<>> THEN Decoded(FALSE, NoRet)
    ELSE IF ~HasPrefix(s, CommandString(Exclude))
    THEN Decoded(FALSE, RetErr(InvalidRespErr(s)))
    ELSE LET t == SliceFrom(s, CommandLen(Exclude) + 1)
         IN  IF t.panic THEN Decoded(TRUE, NoRet)
             ELSE Decoded(FALSE, Ret(NoErr, 0, t.s, FALSE))

\* CheckURL that looks for the marker at the start of the line
CheckURLDecodePrefix(s, err) ==
    IF err # NoErr THEN Decoded(FALSE, RetErr(err))
    ELSE Decoded(FALSE, Ret(NoErr, 0, <<>>, HasPrefix(s, urlBlockedResp)))

CheckURLDecode(s, err) ==
    IF err # NoErr THEN Decoded(FALSE, RetErr(err))
    ELSE Decoded(FALSE, Ret(NoErr, 0, <<>>, HasSuffix(s, urlBlockedResp)))

\* SetPack, SetFlags, SetSensitivity, SetExclude, Close: the error alone
SetDecode(s, err) == Decoded(FALSE, RetErr(err))

Methods ==
    {"Scan", "Vps", "GetPack", "SetPack", "GetFlags", "SetFlags",
     "GetSensitivity", "SetSensitivity", "GetExclude", "SetExclude",
     "CheckURL", "Close"}

\* the verb a method sends
MethodCmd(m) ==
    CASE m = "Scan" -> Scan
      [] m = "Vps" -> Vps
      [] m \in {"GetPack", "SetPack"} -> Pack
      [] m \in {"GetFlags", "SetFlags"} -> Flags
      [] m \in {"GetSensitivity", "SetSensitivity"} -> Sensitivity
      [] m \in {"GetExclude", "SetExclude"} -> Exclude
      [] m = "CheckURL" -> CheckURL
      [] m = "Close" -> Quit

MethodDecode(m, s, err) ==
    CASE m = "Vps" -> VpsDecode(s, err)
      [] m \in {"GetPack", "GetFlags", "GetSensitivity"} ->
            GetDecode(MethodCmd(m), s, err)
      [] m = "GetExclude" -> GetExcludeDecode(s, err)
      [] m = "CheckURL" -> CheckURLDecode(s, err)
      [] OTHER -> SetDecode(s, err)

(***************************************************************************)
(* bounds of the model                                                     *)
(***************************************************************************)
NumCallers == 2
MaxCalls == 2
MaxScanLines == 2

Callers == 1..NumCallers

(***************************************************************************)
(* the daemon: one reply per request line, in the order the lines arrive   *)
(***************************************************************************)
DataLine(c) == <<"2", "1", "0", " ">> \o CommandString(c) \o <<" ", "D", "A", "T", "A">>
OkLine(c) == <<"2", "0", "0", " ">> \o CommandString(c) \o <<" ", "O", "K">>

\* status lines a client must refuse: another code, a continuation, a stub
RefusedLines == {<<"4", "5", "1", " ", "E">>, <<"2", "1", "0", "-", "M">>, <<"2", "1">>}
ClosingLines(c) == {OkLine(c), <<"4", "5", "1", " ", "E">>}

Payloads(c) ==
    CASE c = Vps -> {<<"V", "P", "S", " ", "7">>, <<"V", "P", "S">>, <<"V", "P", "S", " ", "x">>, <<"P", "A", "C", "K", " ", "7">>}
      [] c = Pack -> {<<"P", "A", "C", "K", " ", "+", "m", "i", "m", "e">>, <<"P", "A", "C", "K">>, <<"V", "P", "S", " ", "7">>}
      [] c = Flags -> {<<"F", "L", "A", "G", "S", " ", "-", "f", "u", "l", "l", "f", "i", "l", "e", "s">>, <<"V", "P", "S", " ", "7">>}
      [] c = Sensitivity -> {<<"S", "E", "N", "S", "I", "T", "I", "V", "I", "T", "Y", " ", "+", "w", "o", "r", "m">>, <<"V", "P", "S", " ", "7">>}
      [] OTHER -> {}

URLLines == {<<"2", "0", "0", " ", "O", "K">>, <<"5", "2", "0", " ", "U", "R", "L", " ", "b", "l", "o", "c", "k", "e", "d">>, <<"U", "R", "L", " ", "b", "l", "o", "c", "k", "e", "d">>, <<"U", "R", "L", " ", "b", "l", "o", "c", "k", "e", "d", " ", "5">>}

\* lines of a SCAN report: results, and lines that are no result
ScanLines ==
    {<<"S", "C", "A", "N", " ", "a", "\t", "[", "+", "]", "0", ".", "0">>, <<"S", "C", "A", "N", " ", "a", "|", "b", "\t", "[", "L", "]", "1", ".", "0", "\t", "0", " ", "x">>, <<"S", "C", "A", "N", " ", "a", "\t", "[", "E", "]", "0", ".", "0", "\t", "x">>,
     <<"S", "C", "A", "N", " ", "a", "\t", "[", "+", "]", "1", ".", "0">>, <<"S", "C", "A", "N", " ", "a">>, <<"x">>}

ScanReports == UNION {[1..n -> ScanLines] : n \in 0..MaxScanLines}

Paths == {<<"/", "r">>}
URLs == {<<"u">>}

Reply(lines, excl) == [lines |-> lines, excl |-> excl]

\* the verb of a request line, 0 when it is none
RequestCmd(text) ==
    LET sp   == Index(text, " ")
        verb == IF sp = 0 THEN text ELSE SubSeq(text, 1, sp - 1)
    IN  IF \E c \in Scan..Quit : CommandString(c) = verb
        THEN CHOOSE c \in Scan..Quit : CommandString(c) = verb
        ELSE 0

RequestArg(text) ==
    LET sp == Index(text, " ")
    IN  IF sp = 0 THEN <<>> ELSE SubSeq(text, sp + 1, Len(text))

Envelopes(c, payloads, excl) ==
    {Reply(<<DataLine(c), p, cl>>, excl) :
        p \in payloads, cl \in ClosingLines(c)}

Refusals(excl) == {Reply(<<l>>, excl) : l \in RefusedLines}

DaemonReplies(text, excl) ==
    LET c   == RequestCmd(text)
        arg == RequestArg(text)
    IN  CASE c = Quit -> {Reply(<<>>, excl)}
          [] c = CheckURL -> {Reply(<<l>>, excl) : l \in URLLines}
          [] c = Scan ->
                Refusals(excl) \cup
                {Reply(<<DataLine(c)>> \o ls \o <<scanOkResp>>, excl) :
                    ls \in ScanReports}
          [] c = Exclude /\ arg # <<>> ->
                Refusals(excl) \cup
                Envelopes(c, {<<"E", "X", "C", "L", "U", "D", "E", " ">> \o arg}, arg)
          [] c = Exclude /\ arg = <<>> /\ excl = <<>> ->
                Refusals(excl) \cup
                {Reply(<<DataLine(c), excludeOKResp>>, excl)} \cup
                Envelopes(c, {<<>>, <<"E", "X", "C", "L", "U", "D", "E">>, <<"V", "P", "S", " ", "7">>}, excl)
          [] c = Exclude /\ arg = <<>> /\ excl # <<>> ->
                Refusals(excl) \cup
                Envelopes(c, {<<"E", "X", "C", "L", "U", "D", "E", " ">> \o excl}, excl)
          [] c \in {Vps, Pack, Flags, Sensitivity} ->
                Refusals(excl) \cup Envelopes(c, Payloads(c), excl)
          [] OTHER -> {Reply(<<<<"5", "0", "1", " ", "E">>>>, excl)}

\* A daemon that follows the wire format to the letter: the reply each
\* verb is documented to get, or a one-line refusal.
WireReports ==
    {<<>>, <<<<"S", "C", "A", "N", " ", "a", "\t", "[", "+", "]", "0", ".", "0">>, <<"S", "C", "A", "N", " ", "a", "|", "b", "\t", "[", "L", "]", "1", ".", "0", "\t", "0", " ", "x">>>>}

WireReplies(text, excl) ==
    LET c   == RequestCmd(text)
        arg == RequestArg(text)
    IN  CASE c = Quit -> {Reply(<<>>, excl)}
          [] c = CheckURL -> {Reply(<<<<"5", "2", "0", " ", "U", "R", "L", " ", "b", "l", "o", "c", "k", "e", "d">>>>, excl)}
          [] c = Scan ->
                {Reply(<<<<"4", "5", "1", " ", "E">>>>, excl)} \cup
                {Reply(<<DataLine(c)>> \o ls \o <<scanOkResp>>, excl) :
                    ls \in WireReports}
          [] c = Exclude /\ arg # <<>> ->
                {Reply(<<DataLine(c), <<"E", "X", "C", "L", "U", "D", "E", " ">> \o arg, OkLine(c)>>, arg),
                 Reply(<<DataLine(c), excludeOKResp>>, arg)}
          [] c = Exclude /\ arg = <<>> /\ excl = <<>> ->
                {Reply(<<DataLine(c), excludeOKResp>>, excl)}
          [] c = Exclude /\ arg = <<>> /\ excl # <<>> ->
                {Reply(<<DataLine(c), <<"E", "X", "C", "L", "U", "D", "E", " ">> \o excl, OkLine(c)>>, excl)}
          [] c = Vps ->
                {Reply(<<<<"4", "5", "1", " ", "E">>>>, excl),
                 Reply(<<DataLine(c), <<"V", "P", "S", " ", "7">>, OkLine(c)>>, excl)}
          [] c = Pack ->
                {Reply(<<DataLine(c), <<"P", "A", "C", "K", " ", "+", "m", "i", "m", "e">>, OkLine(c)>>, excl)}
          [] c = Flags ->
                {Reply(<<DataLine(c), <<"F", "L", "A", "G", "S", " ", "-", "f", "u", "l", "l", "f", "i", "l", "e", "s">>, OkLine(c)>>, excl)}
          [] c = Sensitivity ->
                {Reply(<<DataLine(c), <<"S", "E", "N", "S", "I", "T", "I", "V", "I", "T", "Y", " ", "+", "w", "o", "r", "m">>, OkLine(c)>>, excl)}
          [] OTHER -> {Reply(<<<<"5", "0", "1", " ", "E">>>>, excl)}

Tag(id, ls) == [i \in 1..Len(ls) |-> [owner |-> id, text |-> ls[i]]]

(***************************************************************************)
(* state                                                                   *)
(***************************************************************************)
VARIABLES
    pipeline,   \* textproto.Pipeline: next id, request and response turns
    w,          \* the bufio.Writer of tc: buffered pieces, sticky error
    conn,       \* the socket: its I/O deadline, whether it is closed
    inbox,      \* request lines the daemon has not answered yet
    excl,       \* the exclusion the daemon stores
    stream,     \* response lines sent and not yet read, oldest first
    callers,    \* per calling goroutine: where it is in its method call
    calls,      \* number of method calls made so far
    crashed,    \* the process has terminated on a run-time panic
    readFailed, \* history: some read of a response has failed
    io,         \* history: the last socket read or write of a command, and
                \* the deadline the connection had when it was performed
    nc          \* the call of NewClient (or of dial) that makes the client

vars ==
    <<pipeline, w, conn, inbox, excl, stream, callers, calls, crashed,
      readFailed, io, nc>>

NoIO == [op |-> "none", deadline |-> "zero"]

(***************************************************************************)
(* construction: the values NewClient works with                           *)
(***************************************************************************)
\* durations in seconds
DefaultTimeout == 15
DefaultCmdTimeout == 60
DefaultSleep == 1
AvastSock == <<"/", "v", "a", "r", "/", "r", "u", "n", "/", "a", "v", "a", "s", "t", "/", "s", "c", "a", "n", ".", "s", "o", "c", "k">>

\* fmt.Errorf(unixSockErr, address)
UnixSockErr(address) == [kind |-> "unixsock", line |-> address]

\* the error of one d.DialContext: none, a timeout (net.Error with
\* Timeout() true), or another error
DialErr(out) ==
    IF out = "ok" THEN NoErr ELSE [kind |-> out, line |-> <<>>]

\* a classification that takes every dial error for a timeout
IsTimeoutAnyError(e) == e # NoErr

\* e, ok := err.(net.Error); ok && e.Timeout()
IsTimeout(e) == e.kind = "timeout"

\* an address taken as given
ResolveAsGiven(address) == address

\* an empty address stands for the default socket
Resolve(address) == IF address = <<>> THEN AvastSock ELSE address

\* the Client NewClient builds: zero durations replaced by the defaults
\* a Client literal without the default timeouts
NewClientStructAsGiven(address, connTimeOut, ioTimeOut) ==
    [address     |-> address,
     connTimeout |-> connTimeOut,
     connRetries |-> 0,
     connSleep   |-> DefaultSleep,
     cmdTimeout  |-> ioTimeOut]

NewClientStruct(address, connTimeOut, ioTimeOut) ==
    [address     |-> address,
     connTimeout |-> IF connTimeOut = 0 THEN DefaultTimeout ELSE connTimeOut,
     connRetries |-> 0,
     connSleep   |-> DefaultSleep,
     cmdTimeout  |-> IF ioTimeOut = 0 THEN DefaultCmdTimeout ELSE ioTimeOut]

\* c == nil
NoClient ==
    [address |-> <<>>, connTimeout |-> 0, connRetries |-> 0, connSleep |-> 0,
     cmdTimeout |-> 0]

\* a greeting that is always accepted
GreetingErrIgnored(l) == NoErr

\* c.tc.ReadCodeLine(220)
GreetingErr(l) == IF ReadCodeLine(l, 220) THEN NoErr ELSE ProtoErr(l)

\* no setter has been called on the client yet
NoSetter == [name |-> "", arg |-> 0]

\* NewClient("", 0, 0) has returned a client: the default socket exists, it
\* was dialed at the first attempt and the greeting was accepted
Ready ==
    [pc |-> "done",
     args |-> [address |-> <<>>, connTimeOut |-> 0, ioTimeOut |-> 0],
     fs |-> {AvastSock}, address |-> AvastSock,
     c |-> NewClientStruct(AvastSock, 0, 0),
     i |-> 0, attempts |-> <<"ok">>, sleeps |-> 0,
     lines |-> <<<<"2", "2", "0", " ", "D", "A", "E", "M", "O", "N">>>>, err |-> NoErr, set |-> NoSetter]

Idle ==
    [pc |-> "idle", meth |-> "", cmd |-> 0, v |-> 0, o |-> <<>>, id |-> 0,
     lines |-> <<>>, r |-> <<>>, rs |-> <<>>, gerr |-> NoErr,
     err |-> NoErr, ret |-> NoRet]

\* the client as NewClient returns it: connected, greeting consumed
Init ==
    /\ pipeline = [next |-> 0, request |-> 0, response |-> 0]
    /\ w = [buf |-> <<>>, err |-> FALSE]
    /\ conn = [deadline |-> "zero", closed |-> FALSE]
    /\ inbox = <<>>
    /\ excl = <<>>
    /\ stream = <<>>
    /\ callers = [p \in Callers |-> Idle]
    /\ calls = 0
    /\ crashed = FALSE
    /\ readFailed = FALSE
    /\ io = NoIO
    /\ nc = Ready

(***************************************************************************)
(* the arguments the methods are called with                               *)
(***************************************************************************)
MethodArgs(m) ==
    CASE m = "Scan" -> Paths
      [] m = "SetPack" -> {PackEnable(Mime), PackDisable(Mime)}
      [] m = "SetFlags" -> {FlagEnable(FullFiles), FlagDisable(FullFiles)}
      [] m = "SetSensitivity" -> {SensiEnable(Worm), SensiDisable(Worm)}
      [] m = "SetExclude" -> Paths
      [] m = "CheckURL" -> URLs
      [] OTHER -> {<<>>}

\* the line tc.Cmd formats: "%s" when basicCmd has no option, else "%s %s"
RequestLine(m, cmd, o) ==
    IF m # "Scan" /\ o = <<>>
    THEN CommandString(cmd)
    ELSE CommandString(cmd) \o <<" ">> \o o

(***************************************************************************)
(* textproto.Pipeline: the two sequencers                                  *)
(***************************************************************************)
\* a sequencer that lets every id through at once
StartRequestAnyTurn(id) == TRUE

\* StartRequest(id) lets id through when it is id's turn to write
StartRequest(id) == pipeline.request = id

StartResponseAnyTurn(id) == TRUE

\* StartResponse(id) lets id through when it is id's turn to read
StartResponse(id) == pipeline.response = id

\* a deadline that is never set
SetDeadlineDropped(c, t) == c

\* c.conn.SetDeadline(t): t is "armed" for time.Now().Add(c.cmdTimeout) and
\* "zero" for ZeroTime
SetDeadline(c, t) == [c EXCEPT !.deadline = t]

\* a Close that leaves the socket open
tcCloseSkipped(c, m) == c

\* Close calls c.tc.Close() once basicCmd(Quit) has returned, whatever it
\* returned; the other methods leave the socket as it is
tcClose(c, m) == [c EXCEPT !.closed = @ \/ m = "Close"]

\* the record of a read or write performed now
Performed(op) == [op |-> op, deadline |-> conn.deadline]

RECURSIVE PiecesText(_)
PiecesText(ps) ==
    IF ps = <<>> THEN <<>> ELSE Head(ps).text \o PiecesText(Tail(ps))

(***************************************************************************)
(* a method call, step by step between the points where it can block       *)
(***************************************************************************)
\* A caller that got a transport error gives the client up (it may still
\* Close it): the engine does not resynchronise the stream.
Usable(p) == callers[p].ret.err.kind \notin {"read", "write"}

\* A goroutine calls method m with argument o; tc.Cmd draws the id (Next).
Call(p, m, o) ==
    /\ ~crashed
    /\ calls < MaxCalls
    /\ callers[p].pc \in {"idle", "done"}
    /\ Usable(p) \/ m = "Close"
    /\ callers' = [callers EXCEPT ![p] =
                      [Idle EXCEPT !.pc = "request", !.meth = m,
                                   !.cmd = MethodCmd(m), !.o = o,
                                   !.id = pipeline.next]]
    /\ pipeline' = [pipeline EXCEPT !.next = @ + 1]
    /\ calls' = calls + 1
    /\ UNCHANGED <<w, conn, inbox, excl, stream, crashed, readFailed, io>>
    /\ UNCHANGED nc

\* tc.Cmd: StartRequest, then PrintfLine formats the line into the writer
Request(p) ==
    LET cr == callers[p]
    IN  /\ ~crashed
        /\ cr.pc = "request"
        /\ StartRequest(cr.id)
        /\ w' = IF w.err THEN w
                ELSE [w EXCEPT !.buf =
                        Append(@, [id |-> cr.id,
                                   text |-> RequestLine(cr.meth, cr.cmd, cr.o)])]
        /\ callers' = [callers EXCEPT ![p].pc = "flush"]
        /\ UNCHANGED <<pipeline, conn, inbox, excl, stream, calls, crashed,
                       readFailed, io>>
        /\ UNCHANGED nc

\* PrintfLine ends the line and flushes it to the socket; EndRequest
Flush(p) ==
    LET cr == callers[p]
    IN  /\ ~crashed
        /\ cr.pc = "flush"
        /\ ~w.err
        /\ ~conn.closed
        /\ inbox' = IF w.buf = <<>> THEN inbox ELSE Append(inbox, w.buf)
        /\ w' = [w EXCEPT !.buf = <<>>]
        /\ pipeline' = [pipeline EXCEPT !.request = @ + 1]
        /\ callers' = [callers EXCEPT ![p].pc = "response"]
        /\ io' = IF w.buf = <<>> THEN io ELSE Performed("write")
        /\ UNCHANGED <<conn, excl, stream, calls, crashed, readFailed>>
        /\ UNCHANGED nc

\* a failed flush after which the writer works again
FlushFailOnce(p) ==
    LET cr == callers[p]
    IN  /\ ~crashed
        /\ cr.pc = "flush"
        /\ w' = [buf |-> <<>>, err |-> FALSE]
        /\ pipeline' = [pipeline EXCEPT !.request = @ + 1]
        /\ conn' = tcClose(conn, cr.meth)
        /\ callers' = [callers EXCEPT ![p] =
                          [cr EXCEPT !.pc = "done", !.err = WriteErr,
                                     !.ret = RetErr(WriteErr)]]
        /\ io' = IF w.err THEN io ELSE Performed("write")
        /\ UNCHANGED <<inbox, excl, stream, calls, crashed, readFailed>>
        /\ UNCHANGED nc

\* The flush fails (the writer keeps its error); EndRequest; the command
\* returns the error without taking a response turn.  Close still closes.
FlushFail(p) ==
    LET cr == callers[p]
    IN  /\ ~crashed
        /\ cr.pc = "flush"
        /\ w' = [buf |-> <<>>, err |-> TRUE]
        /\ pipeline' = [pipeline EXCEPT !.request = @ + 1]
        /\ conn' = tcClose(conn, cr.meth)
        /\ callers' = [callers EXCEPT ![p] =
                          [cr EXCEPT !.pc = "done", !.err = WriteErr,
                                     !.ret = RetErr(WriteErr)]]
        /\ io' = IF w.err THEN io ELSE Performed("write")
        /\ UNCHANGED <<inbox, excl, stream, calls, crashed, readFailed>>
        /\ UNCHANGED nc

\* a return whose deferred SetDeadline(ZeroTime) does not run
ReturnKeepingDeadline(p, cr) ==
    LET d == IF cr.meth = "Scan"
             THEN Decoded(FALSE, RetErr(cr.err))
             ELSE MethodDecode(cr.meth, cr.r, cr.err)
    IN  /\ conn' = tcClose(conn, cr.meth)
        /\ pipeline' = [pipeline EXCEPT !.response = @ + 1]
        /\ crashed' = d.panic
        /\ callers' = [callers EXCEPT ![p] =
                          [cr EXCEPT !.pc = IF d.panic THEN "panic" ELSE "done",
                                     !.ret = d.ret]]

\* basicCmd / fileCmd return with cr: the deferred SetDeadline(ZeroTime) and
\* EndResponse run, then the public method decodes (and Close closes).
Return(p, cr) ==
    LET d == IF cr.meth = "Scan"
             THEN Decoded(FALSE, RetErr(cr.err))
             ELSE MethodDecode(cr.meth, cr.r, cr.err)
    IN  /\ conn' = tcClose(SetDeadline(conn, "zero"), cr.meth)
        /\ pipeline' = [pipeline EXCEPT !.response = @ + 1]
        /\ crashed' = d.panic
        /\ callers' = [callers EXCEPT ![p] =
                          [cr EXCEPT !.pc = IF d.panic THEN "panic" ELSE "done",
                                     !.ret = d.ret]]

\* StartResponse; QUIT returns at once, the others go on to read
Response_(p) ==
    LET cr == callers[p]
    IN  /\ ~crashed
        /\ cr.pc = "response"
        /\ StartResponse(cr.id)
        /\ IF cr.cmd = Quit
           THEN Return(p, cr)
           ELSE /\ callers' = [callers EXCEPT ![p].pc =
                                  IF cr.cmd = CheckURL THEN "line" ELSE "open"]
                /\ conn' = SetDeadline(conn, "armed")
                /\ UNCHANGED <<pipeline, crashed>>
        /\ UNCHANGED <<w, inbox, excl, stream, calls, readFailed, io>>
        /\ UNCHANGED nc

\* the caller's record after it has read the next line of the stream
Took(cr) == [cr EXCEPT !.lines = Append(@, Head(stream))]

\* Read Opening response: SetDeadline, ReadCodeLine(210)
ReadOpen(p) ==
    LET cr == Took(callers[p])
        l  == Head(stream).text
    IN  /\ ~crashed
        /\ callers[p].pc = "open"
        /\ stream # <<>>
        /\ stream' = Tail(stream)
        /\ IF ReadCodeLine(l, 210)
           THEN /\ callers' = [callers EXCEPT ![p] =
                      [cr EXCEPT !.pc = IF cr.cmd = Scan THEN "scan"
                                        ELSE "payload"]]
                /\ conn' = SetDeadline(conn, "armed")
                /\ UNCHANGED <<pipeline, crashed>>
           ELSE Return(p, [cr EXCEPT !.err = ProtoErr(l)])
        /\ io' = Performed("read")
        /\ UNCHANGED <<w, inbox, excl, calls, readFailed>>
        /\ UNCHANGED nc

\* a payload that is never taken for the sentinel
IsSentinelNever(cmd, l) == FALSE

\* cmd == Exclude and r == excludeOKResp: the payload closes the response
IsSentinel(cmd, l) == cmd = Exclude /\ l = excludeOKResp

\* Read actual response: SetDeadline, ReadLine; EXCLUDE ends on its sentinel
ReadPayload(p) ==
    LET cr == Took(callers[p])
        l  == Head(stream).text
    IN  /\ ~crashed
        /\ callers[p].pc = "payload"
        /\ stream # <<>>
        /\ stream' = Tail(stream)
        /\ IF IsSentinel(cr.cmd, l)
           THEN Return(p, [cr EXCEPT !.r = <<>>])
           ELSE /\ callers' = [callers EXCEPT ![p] =
                      [cr EXCEPT !.pc = "close", !.r = l]]
                /\ conn' = SetDeadline(conn, "armed")
                /\ UNCHANGED <<pipeline, crashed>>
        /\ io' = Performed("read")
        /\ UNCHANGED <<w, inbox, excl, calls, readFailed>>
        /\ UNCHANGED nc

\* a basicCmd that returns after the payload, the closing line unread
ReadCloseSkipped(p) ==
    /\ ~crashed
    /\ callers[p].pc = "close"
    /\ Return(p, callers[p])
    /\ UNCHANGED <<w, inbox, excl, stream, calls, readFailed, io>>
    /\ UNCHANGED nc

\* Read Closing response: SetDeadline, ReadCodeLine(200)
ReadClose(p) ==
    LET cr == Took(callers[p])
        l  == Head(stream).text
    IN  /\ ~crashed
        /\ callers[p].pc = "close"
        /\ stream # <<>>
        /\ stream' = Tail(stream)
        /\ IF ReadCodeLine(l, 200)
           THEN Return(p, cr)
           ELSE Return(p, [cr EXCEPT !.err = ProtoErr(l)])
        /\ io' = Performed("read")
        /\ UNCHANGED <<w, inbox, excl, calls, readFailed>>
        /\ UNCHANGED nc

\* CHECKURL: SetDeadline, one ReadLine
ReadURL(p) ==
    LET cr == Took(callers[p])
        l  == Head(stream).text
    IN  /\ ~crashed
        /\ callers[p].pc = "line"
        /\ stream # <<>>
        /\ stream' = Tail(stream)
        /\ Return(p, [cr EXCEPT !.r = l])
        /\ io' = Performed("read")
        /\ UNCHANGED <<w, inbox, excl, calls, readFailed>>
        /\ UNCHANGED nc

\* one turn of fileCmd's loop: SetDeadline, ReadLine, the line's case; when
\* the line makes fileCmd panic, the deferred SetDeadline(ZeroTime) and
\* EndResponse run as the panic unwinds
ScanRead(p) ==
    LET cr == Took(callers[p])
        l  == Head(stream).text
        st == fileCmdLine(l, cr.rs, cr.gerr)
    IN  /\ ~crashed
        /\ callers[p].pc = "scan"
        /\ stream # <<>>
        /\ stream' = Tail(stream)
        /\ IF st.panic
           THEN /\ crashed' = TRUE
                /\ callers' = [callers EXCEPT ![p] = [cr EXCEPT !.pc = "panic"]]
                /\ conn' = SetDeadline(conn, "zero")
                /\ pipeline' = [pipeline EXCEPT !.response = @ + 1]
           ELSE IF st.brk
           THEN Return(p, [cr EXCEPT !.err = fileCmdErr(NoErr, st.gerr)])
           ELSE /\ callers' = [callers EXCEPT ![p] =
                      [cr EXCEPT !.rs = st.r, !.gerr = st.gerr]]
                /\ conn' = SetDeadline(conn, "armed")
                /\ UNCHANGED <<pipeline, crashed>>
        /\ io' = Performed("read")
        /\ UNCHANGED <<w, inbox, excl, calls, readFailed>>
        /\ UNCHANGED nc

\* a read fails: the line did not come by the deadline, or the socket broke
ReadFail(p) ==
    LET cr == callers[p]
    IN  /\ ~crashed
        /\ cr.pc \in {"open", "payload", "close", "line", "scan"}
        /\ Return(p, [cr EXCEPT !.err = ReadErr,
                                !.r = IF cr.pc = "close" THEN cr.r ELSE <<>>])
        /\ readFailed' = TRUE
        /\ io' = Performed("read")
        /\ UNCHANGED <<w, inbox, excl, stream, calls>>
        /\ UNCHANGED nc

\* the daemon answers the oldest request line: to the letter of the wire
\* format when strict, else with any of its replies
Answer(strict) ==
    LET text == PiecesText(Head(inbox))
        id   == Head(inbox)[1].id
    IN  /\ ~crashed
        /\ ~conn.closed
        /\ inbox # <<>>
        /\ inbox' = Tail(inbox)
        /\ \E rep \in IF strict THEN WireReplies(text, excl)
                       ELSE DaemonReplies(text, excl) :
              /\ stream' = stream \o Tag(id, rep.lines)
              /\ excl' = rep.excl
        /\ UNCHANGED <<pipeline, w, conn, callers, calls, crashed, readFailed,
                       io>>
        /\ UNCHANGED nc

\* a call of one of the methods ms
Invoke(p, ms) == \E m \in ms : \E o \in MethodArgs(m) : Call(p, m, o)

\* every step a goroutine can take inside a call
Step(p) ==
    \/ ReadFail(p)
    \/ Request(p)
    \/ Flush(p)
    \/ FlushFail(p)
    \/ Response_(p)
    \/ ReadOpen(p)
    \/ ReadPayload(p)
    \/ ReadClose(p)
    \/ ReadURL(p)
    \/ ScanRead(p)

\* Several goroutines share the client, each calling a method of one of the
\* response shapes (three lines, two, one, none, a stream); the daemon
\* follows the wire format.
SharedMethods == {"Vps", "GetExclude", "CheckURL", "Scan", "Close"}

Next ==
    \/ \E p \in Callers : Invoke(p, SharedMethods)
    \/ \E p \in Callers : Step(p)
    \/ Answer(TRUE)

Spec == Init /\ [][Next]_vars

\* one goroutine uses the client; the daemon may send any of its replies
NextSeq ==
    \/ Invoke(1, Methods)
    \/ Step(1)
    \/ Answer(FALSE)

SpecSeq == Init /\ [][NextSeq]_vars

\* The goroutines are scheduled, and a socket read or write that cannot
\* complete fails by its deadline: a goroutine that can take a step inside
\* its call eventually takes one.
Fairness == \A p \in Callers : WF_vars(Step(p))

SpecFair == Init /\ [][Next]_vars /\ Fairness

(***************************************************************************)
(* The loop of fileCmd on one report line: the state of a Scan that has    *)
(* read the opening line, with any one line of LineSet and the sentinel    *)
(* to come.                                                                *)
(***************************************************************************)
LineFilenames == {<<"a">>, <<"a", "|", "b">>, <<"a", "|", "b", "|", "c">>, <<"|", "b">>, <<"a", " ", "b">>}
LineStatuses == {"+", "L", "E", "X"}
LineDepths == {<<"0", ".", "0">>, <<"0", ".", "1">>, <<"1", ".", "0">>, <<"2", ".", "5">>, <<"1", "0">>}
LineTails == {<<>>, <<"\t", "x">>, <<"\t", "0", " ", "x">>, <<"\t", "0", " ">>, <<"\t">>, <<" ", "x">>}

LineSet ==
    ScanLines \cup
    {<<"S", "C", "A", "N", " ">> \o f \o <<"\t", "[", s, "]">> \o d \o t :
        f \in LineFilenames, s \in LineStatuses, d \in LineDepths,
        t \in LineTails}

InitLine ==
    /\ pipeline = [next |-> 1, request |-> 1, response |-> 0]
    /\ w = [buf |-> <<>>, err |-> FALSE]
    /\ conn = [deadline |-> "armed", closed |-> FALSE]
    /\ inbox = <<>>
    /\ excl = <<>>
    /\ \E l \in LineSet : stream = Tag(0, <<l, scanOkResp>>)
    /\ \E path \in Paths :
          callers = [p \in Callers |->
                        IF p = 1
                        THEN [Idle EXCEPT !.pc = "scan", !.meth = "Scan",
                                          !.cmd = Scan, !.o = path,
                                          !.lines = Tag(0, <<DataLine(Scan)>>)]
                        ELSE Idle]
    /\ calls = 1
    /\ crashed = FALSE
    /\ readFailed = FALSE
    /\ io = [op |-> "read", deadline |-> "armed"]
    /\ nc = Ready

NextLine == ScanRead(1)

SpecLine == InitLine /\ [][NextLine]_vars


(***************************************************************************)
(* NewClient and dial                                                      *)
(***************************************************************************)
MaxRetries == 2

\* the client's own variables while it is being made
client == <<pipeline, w, inbox, excl, stream, callers, calls, crashed,
            readFailed, io>>

\* addresses NewClient is called with, and the sockets that exist
Addresses == {<<>>, <<"/", "s">>, <<"/", "x">>}
FileSystems == SUBSET {AvastSock, <<"/", "s">>}
ConnTimeOuts == {0 - 1, 0, 5}
IOTimeOuts == {0, 10}
ConnSleeps == {1, 2}

\* what one d.DialContext can come to
DialOutcomes == {"ok", "timeout", "refused"}

\* first lines a daemon may send on a new connection
Greetings == {<<"2", "2", "0", " ", "D", "A", "E", "M", "O", "N">>, <<"2", "2", "0", "-", "D", "A", "E", "M", "O", "N">>, <<"4", "2", "1", " ", "B", "U", "S", "Y">>, <<"2", "2", "0">>, <<"2", "2">>}

\* NewClient is called
InitNew ==
    /\ pipeline = [next |-> 0, request |-> 0, response |-> 0]
    /\ w = [buf |-> <<>>, err |-> FALSE]
    /\ conn = [deadline |-> "zero", closed |-> FALSE]
    /\ inbox = <<>>
    /\ excl = <<>>
    /\ stream = <<>>
    /\ callers = [p \in Callers |-> Idle]
    /\ calls = 0
    /\ crashed = FALSE
    /\ readFailed = FALSE
    /\ io = NoIO
    /\ \E a \in Addresses, ct \in ConnTimeOuts, it \in IOTimeOuts,
          fs \in FileSystems :
          nc = [pc |-> "new",
                args |-> [address |-> a, connTimeOut |-> ct, ioTimeOut |-> it],
                fs |-> fs, address |-> <<>>, c |-> NoClient,
                i |-> 0, attempts |-> <<>>, sleeps |-> 0,
                lines |-> <<>>, err |-> NoErr, set |-> NoSetter]

\* a failed handshake that leaves the socket open
CloseOnErrSkipped(c, err) == c

\* NewClient's handshake: if err != nil { c.tc.Close(); return }
CloseOnErr(c, err) == [c EXCEPT !.closed = err # NoErr]

\* NewClient up to the dial: the default address, os.Stat, the Client value
Stat ==
    LET address == Resolve(nc.args.address)
    IN  /\ nc.pc = "new"
        /\ nc' = IF address \notin nc.fs
                 THEN [nc EXCEPT !.pc = "done", !.address = address,
                                 !.err = UnixSockErr(address)]
                 ELSE [nc EXCEPT !.pc = "dial", !.address = address,
                                 !.c = NewClientStruct(address,
                                                       nc.args.connTimeOut,
                                                       nc.args.ioTimeOut)]
        /\ UNCHANGED <<client, conn>>

\* dial: one turn of the loop up to the dial's result
Dial ==
    /\ nc.pc = "dial"
    /\ \E out \in DialOutcomes :
          nc' = [nc EXCEPT !.attempts = Append(@, out),
                           !.err = DialErr(out),
                           !.pc = IF IsTimeout(DialErr(out)) THEN "sleep"
                                  ELSE "dialed"]
    /\ UNCHANGED <<client, conn>>

\* a dial that sleeps only when another attempt follows
SleepBetweenAttempts ==
    /\ nc.pc = "sleep"
    /\ nc' = [nc EXCEPT !.sleeps = IF nc.i + 1 <= nc.c.connRetries
                                   THEN @ + 1 ELSE @,
                        !.i = @ + 1,
                        !.pc = IF nc.i + 1 <= nc.c.connRetries THEN "dial"
                               ELSE "dialed"]
    /\ UNCHANGED <<client, conn>>

\* dial: time.Sleep(c.connSleep), continue: i++ and the loop's condition
Sleep ==
    /\ nc.pc = "sleep"
    /\ nc' = [nc EXCEPT !.sleeps = @ + 1, !.i = @ + 1,
                        !.pc = IF nc.i + 1 <= nc.c.connRetries THEN "dial"
                               ELSE "dialed"]
    /\ UNCHANGED <<client, conn>>

\* NewClient after dial: its error is returned, or the handshake deadline
\* is set and the greeting awaited
Dialed ==
    /\ nc.pc = "dialed"
    /\ IF nc.err # NoErr
       THEN /\ nc' = [nc EXCEPT !.pc = "done"]
            /\ UNCHANGED conn
       ELSE /\ nc' = [nc EXCEPT !.pc = "greet"]
            /\ conn' = SetDeadline(conn, "armed")
    /\ UNCHANGED client

\* NewClient reads the greeting: ReadCodeLine(220), c.tc.Close() when it is
\* refused; the deferred SetDeadline(ZeroTime)
Greeting ==
    /\ nc.pc = "greet"
    /\ \E l \in Greetings :
          /\ nc' = [nc EXCEPT !.pc = "done", !.lines = Append(@, l),
                              !.err = GreetingErr(l)]
          /\ conn' = SetDeadline(CloseOnErr(conn, GreetingErr(l)), "zero")
    /\ UNCHANGED client

\* the greeting does not come by the deadline, or the socket breaks
GreetingFail ==
    /\ nc.pc = "greet"
    /\ nc' = [nc EXCEPT !.pc = "done", !.err = ReadErr]
    /\ conn' = SetDeadline(CloseOnErr(conn, ReadErr), "zero")
    /\ UNCHANGED client

NextNew == Stat \/ Dial \/ Sleep \/ Dialed \/ Greeting \/ GreetingFail

SpecNew == InitNew /\ [][NextNew]_vars

\* dial is called on a client whose retry policy the setters have set
InitDial ==
    /\ pipeline = [next |-> 0, request |-> 0, response |-> 0]
    /\ w = [buf |-> <<>>, err |-> FALSE]
    /\ conn = [deadline |-> "zero", closed |-> FALSE]
    /\ inbox = <<>>
    /\ excl = <<>>
    /\ stream = <<>>
    /\ callers = [p \in Callers |-> Idle]
    /\ calls = 0
    /\ crashed = FALSE
    /\ readFailed = FALSE
    /\ io = NoIO
    /\ \E a \in Addresses \ {<<>>}, ct \in ConnTimeOuts, it \in IOTimeOuts,
          n \in 0..MaxRetries, s \in ConnSleeps :
          nc = [pc |-> "dial",
                args |-> [address |-> a, connTimeOut |-> ct, ioTimeOut |-> it],
                fs |-> {a}, address |-> a,
                c |-> [NewClientStruct(a, ct, it) EXCEPT
                          !.connRetries = n, !.connSleep = s],
                i |-> 0, attempts |-> <<>>, sleeps |-> 0,
                lines |-> <<>>, err |-> NoErr, set |-> NoSetter]

NextDial == Dial \/ Sleep

SpecDial == InitDial /\ [][NextDial]_vars

(***************************************************************************)
(* one caller and a daemon that follows the wire format                    *)
(***************************************************************************)
NextWire ==
    \/ Invoke(1, Methods)
    \/ Step(1)
    \/ Answer(TRUE)

SpecWire == Init /\ [][NextWire]_vars

(***************************************************************************)
(* the getters on any payload line                                         *)
(***************************************************************************)
Getters == {"Vps", "GetPack", "GetFlags", "GetSensitivity"}

PayloadTokens == {<<"V", "P", "S">>, <<"P", "A", "C", "K">>, <<"F", "L", "A", "G", "S">>, <<"S", "E", "N", "S", "I", "T", "I", "V", "I", "T", "Y">>, <<"V", "P">>}
PayloadSeparators == {<<>>, <<" ">>, <<"x">>}
PayloadRests == {<<>>, <<"7">>, <<"4", "2">>, <<"-", "3">>, <<"+", "4">>, <<"4", "x">>, <<"+", "m", "i", "m", "e">>, <<" ", "7">>}

PayloadSet ==
    {t \o s \o r : t \in PayloadTokens, s \in PayloadSeparators,
                   r \in PayloadRests}

\* a getter has sent its request and read the opening line; the payload
\* line and the closing line are in the socket
InitPayload ==
    /\ pipeline = [next |-> 1, request |-> 1, response |-> 0]
    /\ w = [buf |-> <<>>, err |-> FALSE]
    /\ conn = [deadline |-> "armed", closed |-> FALSE]
    /\ inbox = <<>>
    /\ excl = <<>>
    /\ \E m \in Getters, s \in PayloadSet :
          /\ \E cl \in ClosingLines(MethodCmd(m)) :
                stream = Tag(0, <<s, cl>>)
          /\ callers = [p \in Callers |->
                          IF p = 1
                          THEN [Idle EXCEPT
                                  !.pc = "payload", !.meth = m,
                                  !.cmd = MethodCmd(m),
                                  !.lines = Tag(0, <<DataLine(MethodCmd(m))>>)]
                          ELSE Idle]
    /\ calls = 1
    /\ crashed = FALSE
    /\ readFailed = FALSE
    /\ io = [op |-> "read", deadline |-> "armed"]
    /\ nc = Ready

NextPayload == ReadPayload(1) \/ ReadClose(1)

SpecPayload == InitPayload /\ [][NextPayload]_vars

(***************************************************************************)
(* the setters, and the life of one client from NewClient on               *)
(***************************************************************************)
\* SetConnRetries that stores what it is given
SetConnRetriesAsGiven(c, s) == [c EXCEPT !.connRetries = s]

\* func (c *Client) SetConnTimeout(t time.Duration)
SetConnTimeout(c, t) == IF t > 0 THEN [c EXCEPT !.connTimeout = t] ELSE c

\* func (c *Client) SetCmdTimeout(t time.Duration)
SetCmdTimeout(c, t) == IF t > 0 THEN [c EXCEPT !.cmdTimeout = t] ELSE c

\* func (c *Client) SetConnRetries(s int)
SetConnRetries(c, s) == [c EXCEPT !.connRetries = IF s < 0 THEN 0 ELSE s]

\* func (c *Client) SetConnSleep(s time.Duration)
SetConnSleep(c, s) == IF s > 0 THEN [c EXCEPT !.connSleep = s] ELSE c

Setters == {"SetConnTimeout", "SetCmdTimeout", "SetConnRetries",
            "SetConnSleep"}

\* what the setters are called with
SetterArgs == {0 - 2, 0, 2}

\* a setter reaches the client while NewClient is still running
HasClientAnyTime == nc.c # NoClient

\* NewClient has returned the client: only then can a setter be called
HasClient == nc.pc = "done" /\ nc.c # NoClient

\* NewClient has returned a client and no error: commands can be sent
Constructed == nc.pc = "done" /\ nc.err = NoErr

\* the caller calls one setter between two commands
CallSetter(name, arg) ==
    /\ HasClient
    /\ ~crashed
    /\ calls < MaxCalls
    /\ \A p \in Callers : callers[p].pc \in {"idle", "done"}
    /\ nc' = [nc EXCEPT
                 !.c = CASE name = "SetConnTimeout" -> SetConnTimeout(@, arg)
                         [] name = "SetCmdTimeout" -> SetCmdTimeout(@, arg)
                         [] name = "SetConnRetries" -> SetConnRetries(@, arg)
                         [] name = "SetConnSleep" -> SetConnSleep(@, arg),
                 !.set = [name |-> name, arg |-> arg]]
    /\ calls' = calls + 1
    /\ UNCHANGED <<pipeline, w, conn, inbox, excl, stream, callers, crashed,
                   readFailed, io>>

\* NewClient is called with the default timeouts
InitLife ==
    /\ InitNew
    /\ nc.args.connTimeOut = 0
    /\ nc.args.ioTimeOut = 0

\* NewClient runs; on the client it returned one goroutine calls setters and
\* commands in any order, against a daemon that follows the wire format
NextLife ==
    \/ NextNew
    \/ \E name \in Setters, arg \in SetterArgs : CallSetter(name, arg)
    \/ Constructed /\ Invoke(1, Methods)
    \/ Constructed /\ Step(1)
    \/ Constructed /\ Answer(TRUE)

SpecLife == InitLife /\ [][NextLife]_vars

(***************************************************************************)
(* the names of the commands and options                                   *)
(***************************************************************************)
NameMethods ==
    {"Command.String", "Command.Len",
     "SensiOption.String", "SensiOption.Enable", "SensiOption.Disable",
     "Flag.String", "Flag.Enable", "Flag.Disable",
     "PackOption.String", "PackOption.Enable", "PackOption.Disable"}

\* receivers: every constant of the four types, the values around them and
\* the 100 of the tests
NameValues == ((0 - 2)..(Dmg + 2)) \cup {100}

\* what method m returns on the receiver v
NameResult(m, v) ==
    CASE m = "Command.String" -> Ret(NoErr, 0, CommandString(v), FALSE)
      [] m = "Command.Len" -> Ret(NoErr, CommandLen(v), <<>>, FALSE)
      [] m = "SensiOption.String" -> Ret(NoErr, 0, SensiString(v), FALSE)
      [] m = "SensiOption.Enable" -> Ret(NoErr, 0, SensiEnable(v), FALSE)
      [] m = "SensiOption.Disable" -> Ret(NoErr, 0, SensiDisable(v), FALSE)
      [] m = "Flag.String" -> Ret(NoErr, 0, FlagString(v), FALSE)
      [] m = "Flag.Enable" -> Ret(NoErr, 0, FlagEnable(v), FALSE)
      [] m = "Flag.Disable" -> Ret(NoErr, 0, FlagDisable(v), FALSE)
      [] m = "PackOption.String" -> Ret(NoErr, 0, PackString(v), FALSE)
      [] m = "PackOption.Enable" -> Ret(NoErr, 0, PackEnable(v), FALSE)
      [] m = "PackOption.Disable" -> Ret(NoErr, 0, PackDisable(v), FALSE)

\* one call of a String, Len, Enable or Disable method
CallName(p, m, v) ==
    /\ callers[p].pc = "idle"
    /\ callers' = [callers EXCEPT ![p] =
                      [Idle EXCEPT !.pc = "done", !.meth = m, !.v = v,
                                   !.ret = NameResult(m, v)]]
    /\ UNCHANGED <<pipeline, w, conn, inbox, excl, stream, calls, crashed,
                   readFailed, io, nc>>

NextNames == \E m \in NameMethods, v \in NameValues : CallName(1, m, v)

SpecNames == Init /\ [][NextNames]_vars
(***************************************************************************)
(* Properties                                                              *)
(***************************************************************************)
Texts(p) == [i \in 1..Len(callers[p].lines) |-> callers[p].lines[i].text]

Reading(p) == callers[p].pc \in {"open", "payload", "close", "line", "scan"}

\* every request line the daemon gets is one request, unmixed
WholeRequests == \A i \in 1..Len(inbox) : Len(inbox[i]) = 1

\* every line p has read in its current call answers p's own request
OwnLines(p) ==
    \A i \in 1..Len(callers[p].lines) :
        callers[p].lines[i].owner = callers[p].id

InFlight(p) == callers[p].pc = "response" \/ Reading(p)

\* C2 as stated: at most one command is in flight; no request is written
\* while an earlier command's response is not yet consumed.
C2_OneInFlight == Cardinality({p \in Callers : InFlight(p)}) <= 1

\* C2 amended: at most one command reads its response at a time, and at most
\* one writes its request at a time (requests are pipelined: a request may be
\* written while earlier responses are still unread).
C2_OneReaderOneWriter ==
    /\ Cardinality({p \in Callers : Reading(p)}) <= 1
    /\ Cardinality({p \in Callers : callers[p].pc = "flush"}) <= 1

\* q writes its request while p is in the middle of reading its response
C2_Witness ==
    \E p, q \in Callers :
        /\ callers[p].pc \in {"payload", "close", "scan"}
        /\ callers[q].pc = "flush"

\* the line is "<code> <message>" with the three digits of code
CodeDigits(code) ==
    <<Digits[(code \div 100) + 1], Digits[((code \div 10) % 10) + 1],
      Digits[(code % 10) + 1]>>

Carries(l, code) ==
    /\ Len(l) >= 4
    /\ SubSeq(l, 1, 3) = CodeDigits(code)
    /\ l[4] = " "

\* p has come back from basicCmd on a verb with the three-line envelope
\* (EXCLUDE answered by its sentinel aside)
EnvelopeDone(p) ==
    /\ callers[p].pc \in {"done", "panic"}
    /\ callers[p].cmd \in {Vps, Pack, Flags, Sensitivity, Exclude}
    /\ ~ /\ callers[p].cmd = Exclude
         /\ Len(Texts(p)) >= 2
         /\ Texts(p)[2] = excludeOKResp

\* C3: basicCmd returns the payload and no error exactly when the first
\* line carries 210, a second line was read and the third carries 200; a
\* status line with another code gives a protocol error and ends the reads.
C3_Envelope ==
    \A p \in Callers :
        EnvelopeDone(p) =>
            LET ls == Texts(p)
                ok == /\ Len(ls) = 3
                      /\ Carries(ls[1], 210)
                      /\ Carries(ls[3], 200)
            IN  /\ (callers[p].err = NoErr) <=> ok
                /\ ok => callers[p].r = ls[2]
                /\ (Len(ls) >= 1 /\ ~Carries(ls[1], 210)) =>
                      (callers[p].err.kind = "proto" /\ Len(ls) = 1)
                /\ (Len(ls) = 3 /\ ~Carries(ls[3], 200)) =>
                      callers[p].err.kind = "proto"

\* a payload was read and the closing line then carried another code
C3_Witness ==
    \E p \in Callers :
        /\ EnvelopeDone(p)
        /\ Len(Texts(p)) = 3
        /\ Carries(Texts(p)[1], 210)
        /\ callers[p].err.kind = "proto"

\* Scan has come back after its loop ran to the sentinel
ScanDone(p) ==
    /\ callers[p].pc = "done"
    /\ callers[p].meth = "Scan"
    /\ callers[p].err.kind \in {"nil", "invalid"}

\* the lines read between the opening line and the last one
Report(p) == SubSeq(Texts(p), 2, Len(Texts(p)) - 1)

IsResult(l) == FindStringSubmatch(l).ok

Raws(p) == [i \in 1..Len(callers[p].rs) |-> callers[p].rs[i].Raw]

\* C4: Scan returns one Response per result line read between the opening
\* line and the first "200 SCAN OK", in order, Raw being the line; with an
\* empty report it returns no Response and no error.
C4_ScanResults ==
    \A p \in Callers :
        ScanDone(p) =>
            /\ Texts(p)[Len(Texts(p))] = scanOkResp
            /\ \A i \in 1..Len(Report(p)) : Report(p)[i] # scanOkResp
            /\ Raws(p) = SelectSeq(Report(p), IsResult)
            /\ Report(p) = <<>> =>
                  (callers[p].rs = <<>> /\ callers[p].err = NoErr)

\* two different result lines came back as two Responses, in their order
C4_Witness ==
    \E p \in Callers :
        /\ ScanDone(p)
        /\ Len(callers[p].rs) = 2
        /\ callers[p].rs[1].Raw # callers[p].rs[2].Raw

\* neither the sentinel nor a result line
NoResult(l) == l # scanOkResp /\ ~IsResult(l)

\* C5: a line that is neither sentinel nor result does not end the loop:
\* Scan reads on to the sentinel, returns the results around it, and returns
\* an invalid-response error exactly when it read such a line.
C5_SoftError ==
    \A p \in Callers :
        /\ (callers[p].meth = "Scan" /\ callers[p].pc = "scan") =>
              \A i \in 2..Len(Texts(p)) : Texts(p)[i] # scanOkResp
        /\ ScanDone(p) =>
              /\ (callers[p].err.kind = "invalid") <=>
                    \E i \in 1..Len(Report(p)) : NoResult(Report(p)[i])
              /\ Len(callers[p].rs) =
                    Cardinality({i \in 1..Len(Report(p)) :
                                    ~NoResult(Report(p)[i])})

\* a malformed line, then a result line: the result is returned with the error
C5_Witness ==
    \E p \in Callers :
        /\ ScanDone(p)
        /\ Len(Report(p)) = 2
        /\ NoResult(Report(p)[1])
        /\ Len(callers[p].rs) = 1
        /\ callers[p].rs[1].Raw = Report(p)[2]
        /\ callers[p].err.kind = "invalid"

\* C6: whatever line the daemon sends during a SCAN response, Scan does not
\* terminate the process.
C6_ScanNeverPanics ==
    \A p \in Callers : callers[p].meth = "Scan" => callers[p].pc # "panic"

\* C7: whatever payload the daemon sends, Vps, GetPack, GetFlags,
\* GetSensitivity and GetExclude do not terminate the process.
C7_GettersNeverPanic ==
    \A p \in Callers :
        callers[p].meth \in {"Vps", "GetPack", "GetFlags", "GetSensitivity",
                             "GetExclude"}
            => callers[p].pc # "panic"

\* every Response any caller holds
Responses ==
    UNION {{callers[p].rs[i] : i \in 1..Len(callers[p].rs)} : p \in Callers}

\* C8: the filename field is split at its first pipe into Filename and
\* ArchiveItem exactly when the depth does not start with "0."; at depth
\* "0." Filename is the whole field and ArchiveItem is empty.
C8_ArchiveSplit ==
    \A rs \in Responses :
        LET mb == FindStringSubmatch(rs.Raw)
        IN  IF mb.depth[1] = "0"
            THEN rs.Filename = mb.filename /\ rs.ArchiveItem = <<>>
            ELSE /\ rs.Filename \o <<"|">> \o rs.ArchiveItem = mb.filename
                 /\ \A i \in 1..Len(rs.Filename) : rs.Filename[i] # "|"

\* a field with two pipes at a non-zero depth, split at the first one:
\* the ArchiveItem keeps the second pipe
C8_Witness ==
    \E rs \in Responses :
        /\ rs.ArchiveItem # <<>>
        /\ \E i \in 1..Len(rs.ArchiveItem) : rs.ArchiveItem[i] = "|"

\* C9: Infected holds exactly for status "L", the status is "+", "L" or "E",
\* and an infected result's Signature is the signature field without its
\* leading "0 ".
C9_Infected ==
    \A rs \in Responses :
        LET sig == FindStringSubmatch(rs.Raw).signature
        IN  /\ rs.Infected <=> rs.Status = "L"
            /\ rs.Status \in {"+", "L", "E"}
            /\ rs.Status = FindStringSubmatch(rs.Raw).status
            /\ rs.Infected =>
                  IF HasPrefix(sig, <<"0", " ">>)
                  THEN <<"0", " ">> \o rs.Signature = sig
                  ELSE rs.Signature = sig

\* an infected result whose signature field began with "0 "
C9_Witness ==
    \E rs \in Responses :
        /\ rs.Infected
        /\ rs.Signature # <<>>
        /\ FindStringSubmatch(rs.Raw).signature # rs.Signature

\* C10 as stated: a result that is not infected has an empty Signature.
C10_SignatureOnlyWhenInfected ==
    \A rs \in Responses : ~rs.Infected => rs.Signature = <<>>

\* C10 amended: a result that is not infected has the line's trailing field,
\* unchanged, as its Signature (empty only when the line has no such field).
C10_SignatureVerbatim ==
    \A rs \in Responses :
        ~rs.Infected => rs.Signature = FindStringSubmatch(rs.Raw).signature

\* a clean result that carries a trailing field beginning with "0 "
C10_Witness ==
    \E rs \in Responses :
        /\ rs.Status = "+"
        /\ HasPrefix(rs.Signature, <<"0", " ">>)


\* C11 as stated: every socket read and every socket write of a command,
\* the request write included, is performed with the I/O deadline armed.
C11_EveryIOBounded == io.op # "none" => io.deadline = "armed"

\* C11 amended: every socket read of a command is performed with the I/O
\* deadline armed, and the deadline is armed only while some command is
\* between its first read and its return (so a request written while no
\* command is reading is written with the deadline cleared).
C11_ReadsBounded ==
    /\ io.op = "read" => io.deadline = "armed"
    /\ conn.deadline = "armed" => (crashed \/ \E p \in Callers : Reading(p))

\* a payload line was just read under an armed deadline, after the other
\* caller's command had returned and cleared the deadline
C11_Witness ==
    /\ io = [op |-> "read", deadline |-> "armed"]
    /\ \E p, q \in Callers :
          /\ callers[p].pc = "close"
          /\ callers[q].pc = "done"
          /\ callers[q].lines # <<>>

\* C12: once Close has returned, the socket is closed, Close has read no
\* response line, and its error is the write error of QUIT when the write
\* failed and nil when it did not.
C12_Close ==
    \A p \in Callers :
        (callers[p].meth = "Close" /\ callers[p].pc = "done") =>
            /\ conn.closed
            /\ callers[p].lines = <<>>
            /\ callers[p].ret.err \in {NoErr, WriteErr}
            /\ callers[p].ret.err = callers[p].err
            /\ callers[p].ret.err = WriteErr => w.err
            /\ callers[p].ret.err = NoErr => pipeline.response > callers[p].id

\* Close returned the write error of QUIT, and the socket is closed
C12_Witness ==
    \E p \in Callers :
        /\ callers[p].meth = "Close"
        /\ callers[p].pc = "done"
        /\ callers[p].ret.err = WriteErr
        /\ conn.closed

\* C13: NewClient on a path that does not exist returns the error naming
\* the path, the default path when the address given is empty, and dials
\* nothing.
C13_MissingSocket ==
    LET path == IF nc.args.address = <<>> THEN AvastSock
                ELSE nc.args.address
    IN  (nc.pc # "new" /\ path \notin nc.fs) =>
            /\ nc.pc = "done"
            /\ nc.err = [kind |-> "unixsock", line |-> path]
            /\ nc.attempts = <<>>
            /\ nc.lines = <<>>

\* NewClient("") where the default socket is missing, another one existing
C13_Witness ==
    /\ nc.pc = "done"
    /\ nc.args.address = <<>>
    /\ nc.fs # {}
    /\ nc.err = [kind |-> "unixsock", line |-> AvastSock]

\* C14: NewClient returns no error exactly when the path exists, the dial
\* succeeded and the first line read carries 220; another greeting or a
\* failed read of it gives an error.
C14_Construction ==
    LET path == IF nc.args.address = <<>> THEN AvastSock
                ELSE nc.args.address
    IN  nc.pc = "done" =>
            /\ (nc.err = NoErr) <=>
                  /\ path \in nc.fs
                  /\ nc.attempts # <<>>
                  /\ nc.attempts[Len(nc.attempts)] = "ok"
                  /\ Len(nc.lines) = 1
                  /\ Carries(nc.lines[1], 220)
            /\ (nc.lines # <<>> /\ ~Carries(nc.lines[1], 220)) =>
                  nc.err.kind = "proto"

\* the daemon greeted with another code and NewClient returned the error
C14_Witness ==
    /\ nc.pc = "done"
    /\ nc.attempts = <<"ok">>
    /\ nc.lines = <<<<"4", "2", "1", " ", "B", "U", "S", "Y">>>>
    /\ nc.err.kind = "proto"

\* C15: dial dials again only after a timeout, at most connRetries + 1
\* times, and returns the result of its last attempt: a success or another
\* error at once, the last timeout when every attempt timed out.
C15_DialRetries ==
    LET n == Len(nc.attempts)
    IN  /\ n <= nc.c.connRetries + 1
        /\ \A k \in 1..(n - 1) : nc.attempts[k] = "timeout"
        /\ nc.pc = "dialed" =>
              /\ n >= 1
              /\ nc.err = (IF nc.attempts[n] = "ok" THEN NoErr
                           ELSE [kind |-> nc.attempts[n], line |-> <<>>])
              /\ nc.attempts[n] = "timeout" => n = nc.c.connRetries + 1

\* two timeouts, then a third attempt that is refused
C15_Witness ==
    /\ nc.pc = "dialed"
    /\ nc.attempts = <<"timeout", "timeout", "refused">>

\* the three-line envelope p has read is the one basicCmd accepts
EnvelopeOk(p) ==
    /\ Len(Texts(p)) = 3
    /\ Carries(Texts(p)[1], 210)
    /\ Carries(Texts(p)[3], 200)

\* the decimal integers among the payload remainders, with their values
Numerals ==
    {<<<<"7">>, 7>>, <<<<"4", "2">>, 42>>, <<<<"-", "3">>, 0 - 3>>, <<<<"+", "4">>, 4>>, <<<<"2">>, 2>>,
     <<<<"3">>, 3>>, <<<<"4">>, 4>>}

\* s is "VPS", one more character, and the integer v
IsVpsOf(s, v) ==
    /\ Len(s) >= 5
    /\ SubSeq(s, 1, 3) = <<"V", "P", "S">>
    /\ <<SubSeq(s, 5, Len(s)), v>> \in Numerals

\* C16: Vps returns v and no error exactly when the envelope succeeded and
\* the payload is "VPS", one separator character and the decimal integer v;
\* after a good envelope any other payload gives an invalid-response error
\* that carries the payload.
C16_Vps ==
    \A p \in Callers :
        (callers[p].meth = "Vps" /\ callers[p].pc = "done") =>
            LET s   == Texts(p)[2]
                ret == callers[p].ret
            IN  /\ (ret.err = NoErr) <=>
                      (EnvelopeOk(p) /\ \E n \in Numerals : IsVpsOf(s, n[2]))
                /\ ret.err = NoErr => IsVpsOf(s, ret.v)
                /\ (EnvelopeOk(p) /\ ret.err # NoErr) =>
                      ret.err = [kind |-> "invalid", line |-> s]

\* a payload whose separator is not a blank and whose integer is signed
C16_Witness ==
    \E p \in Callers :
        /\ callers[p].meth = "Vps"
        /\ callers[p].pc = "done"
        /\ Texts(p)[2] = <<"V", "P", "S", "x", "-", "3">>
        /\ callers[p].ret.v = 0 - 3
        /\ callers[p].ret.err = NoErr

\* C17: GetExclude returns "" and no error on the sentinel, without reading
\* a closing line, and on an empty payload, after reading the closing line;
\* on "EXCLUDE <path>" it returns <path>; a payload that is not empty and
\* does not start with EXCLUDE gives an invalid-response error.
C17_GetExclude ==
    \A p \in Callers :
        (callers[p].meth = "GetExclude" /\ callers[p].pc = "done"
            /\ Len(Texts(p)) >= 2 /\ Carries(Texts(p)[1], 210)) =>
            LET s   == Texts(p)[2]
                ret == callers[p].ret
            IN  /\ s = excludeOKResp =>
                      /\ Len(Texts(p)) = 2
                      /\ ret.err = NoErr /\ ret.s = <<>>
                /\ (s = <<>> /\ ret.err = NoErr) => Len(Texts(p)) = 3
                /\ (s = <<>> /\ EnvelopeOk(p)) =>
                      (ret.err = NoErr /\ ret.s = <<>>)
                /\ (EnvelopeOk(p) /\ HasPrefix(s, <<"E", "X", "C", "L", "U", "D", "E", " ">>)) =>
                      /\ ret.err = NoErr
                      /\ <<"E", "X", "C", "L", "U", "D", "E", " ">> \o ret.s = s
                /\ (EnvelopeOk(p) /\ s # <<>> /\ ~HasPrefix(s, <<"E", "X", "C", "L", "U", "D", "E">>)) =>
                      ret.err = [kind |-> "invalid", line |-> s]

\* GetExclude returned "" on the sentinel after two lines
C17_Witness ==
    \E p \in Callers :
        /\ callers[p].meth = "GetExclude"
        /\ callers[p].pc = "done"
        /\ Len(Texts(p)) = 2
        /\ Texts(p)[2] = excludeOKResp
        /\ callers[p].ret.err = NoErr

\* C18: SetExclude(path) that returns no error has stored path in the
\* daemon, GetExclude that returns no error returns what the daemon has
\* stored, and each has read its response to the end.
C18_ExcludeRoundTrip ==
    \A p \in Callers :
        (callers[p].pc = "done" /\ callers[p].ret.err = NoErr) =>
            /\ callers[p].meth = "SetExclude" =>
                  (excl = callers[p].o /\ stream = <<>>)
            /\ callers[p].meth = "GetExclude" =>
                  (callers[p].ret.s = excl /\ stream = <<>>)

\* the second call, GetExclude, returned the path the first call had set
C18_Witness ==
    /\ calls = 2
    /\ callers[1].meth = "GetExclude"
    /\ callers[1].pc = "done"
    /\ callers[1].ret.err = NoErr
    /\ callers[1].ret.s = <<"/", "r">>

\* l ends with "URL blocked"
EndsBlocked(l) ==
    /\ Len(l) >= 11
    /\ SubSeq(l, Len(l) - 10, Len(l)) = <<"U", "R", "L", " ", "b", "l", "o", "c", "k", "e", "d">>

\* C19: CheckURL reads one line and returns whether it ends with
\* "URL blocked", with no error in either case; its only errors are the
\* failed write and the failed read.
C19_CheckURL ==
    \A p \in Callers :
        (callers[p].meth = "CheckURL" /\ callers[p].pc = "done") =>
            LET ret == callers[p].ret
            IN  /\ Len(Texts(p)) <= 1
                /\ (ret.err = NoErr) <=> (Len(Texts(p)) = 1)
                /\ ret.err \in {NoErr, WriteErr, ReadErr}
                /\ ret.b <=> (Len(Texts(p)) = 1 /\ EndsBlocked(Texts(p)[1]))

\* a line that holds "URL blocked" but does not end with it: false, no error
C19_Witness ==
    \E p \in Callers :
        /\ callers[p].meth = "CheckURL"
        /\ callers[p].pc = "done"
        /\ Texts(p) = <<<<"U", "R", "L", " ", "b", "l", "o", "c", "k", "e", "d", " ", "5">>>>
        /\ callers[p].ret.err = NoErr
        /\ ~callers[p].ret.b

\* p is back from GetPack, GetFlags or GetSensitivity after a good envelope
SettingsDone(p) ==
    /\ callers[p].meth \in {"GetPack", "GetFlags", "GetSensitivity"}
    /\ callers[p].pc = "done"
    /\ EnvelopeOk(p)

SetterField(name) ==
    CASE name = "SetConnTimeout" -> "connTimeout"
      [] name = "SetCmdTimeout" -> "cmdTimeout"
      [] name = "SetConnRetries" -> "connRetries"
      [] name = "SetConnSleep" -> "connSleep"

\* C21: a setter call changes at most its own field and nothing else of the
\* client; SetConnTimeout, SetCmdTimeout and SetConnSleep called with zero or
\* a negative value leave the client as it was and called with a positive
\* value store that value; SetConnRetries(s) stores max(s, 0), so connRetries
\* is never negative.
C21_Setters ==
    [][(calls' = calls + 1 /\ callers' = callers) =>
          LET name == nc'.set.name
              arg  == nc'.set.arg
              own  == SetterField(name)
          IN  /\ name \in Setters
              /\ \A f \in DOMAIN nc.c \ {own} : nc'.c[f] = nc.c[f]
              /\ name # "SetConnRetries" =>
                    nc'.c[own] = IF arg > 0 THEN arg ELSE nc.c[own]
              /\ name = "SetConnRetries" =>
                    nc'.c[own] = IF arg > 0 THEN arg ELSE 0
              /\ nc'.c.connRetries >= 0
              /\ [nc' EXCEPT !.c = nc.c, !.set = nc.set] = nc
              /\ UNCHANGED <<pipeline, w, conn, inbox, excl, stream, crashed,
                             readFailed, io>>]_vars

\* SetConnRetries(-2) has stored 0 and kept the sleep an earlier
\* SetConnSleep(2) stored
C21_Witness ==
    /\ nc.set = [name |-> "SetConnRetries", arg |-> 0 - 2]
    /\ nc.c.connRetries = 0
    /\ nc.c.connSleep = 2
    /\ nc.c.connTimeout = DefaultTimeout

\* C22: the client NewClient returns has connTimeout = connTimeOut when that
\* is not zero and 15 seconds otherwise, cmdTimeout = ioTimeOut when that is
\* not zero and 60 seconds otherwise, connSleep = 1 second, connRetries = 0,
\* and the address given, or the default socket path for the empty address.
C22_NewClientFields ==
    (nc.pc = "done" /\ nc.c # NoClient) =>
        /\ nc.c.connTimeout = IF nc.args.connTimeOut # 0
                              THEN nc.args.connTimeOut ELSE 15
        /\ nc.c.cmdTimeout = IF nc.args.ioTimeOut # 0
                             THEN nc.args.ioTimeOut ELSE 60
        /\ nc.c.connSleep = 1
        /\ nc.c.connRetries = 0
        /\ nc.c.address = IF nc.args.address # <<>> THEN nc.args.address
                          ELSE <<"/", "v", "a", "r", "/", "r", "u", "n", "/", "a", "v", "a", "s", "t", "/", "s", "c", "a", "n", ".", "s", "o", "c", "k">>

\* NewClient("", -1, 0) has returned a client after the greeting: the
\* negative connection timeout is kept, the command timeout is the default
C22_Witness ==
    /\ nc.pc = "done"
    /\ nc.err = NoErr
    /\ nc.args = [address |-> <<>>, connTimeOut |-> 0 - 1, ioTimeOut |-> 0]
    /\ nc.c.connTimeout = 0 - 1
    /\ nc.c.cmdTimeout = DefaultCmdTimeout
    /\ nc.c.address = AvastSock

\* the canonical names, in the order of the constants
CanonicalNames(type) ==
    CASE type = "Command" ->
           <<<<"S", "C", "A", "N">>, <<"V", "P", "S">>, <<"P", "A", "C", "K">>, <<"F", "L", "A", "G", "S">>, <<"S", "E", "N", "S", "I", "T", "I", "V", "I", "T", "Y">>, <<"E", "X", "C", "L", "U", "D", "E">>,
             <<"C", "H", "E", "C", "K", "U", "R", "L">>, <<"Q", "U", "I", "T">>>>
      [] type = "SensiOption" ->
           <<<<"w", "o", "r", "m">>, <<"t", "r", "o", "j", "a", "n">>, <<"a", "d", "w", "a", "r", "e">>, <<"s", "p", "y", "w", "a", "r", "e">>, <<"d", "r", "o", "p", "p", "e", "r">>, <<"k", "i", "t">>,
             <<"j", "o", "k", "e">>, <<"d", "a", "n", "g", "e", "r", "o", "u", "s">>, <<"d", "i", "a", "l", "e", "r">>, <<"r", "o", "o", "t", "k", "i", "t">>, <<"e", "x", "p", "l", "o", "i", "t">>,
             <<"p", "u", "p">>, <<"s", "u", "s", "p", "i", "c", "i", "o", "u", "s">>, <<"p", "u", "b", "e">>>>
      [] type = "Flag" -> <<<<"f", "u", "l", "l", "f", "i", "l", "e", "s">>, <<"a", "l", "l", "f", "i", "l", "e", "s">>, <<"s", "c", "a", "n", "d", "e", "v", "i", "c", "e", "s">>>>
      [] type = "PackOption" ->
           <<<<"m", "i", "m", "e">>, <<"z", "i", "p">>, <<"a", "r", "j">>, <<"r", "a", "r">>, <<"c", "a", "b">>, <<"t", "a", "r">>, <<"g", "z">>,
             <<"b", "z", "i", "p", "2">>, <<"a", "c", "e">>, <<"a", "r", "c">>, <<"z", "o", "o">>, <<"l", "h", "a", "r", "c">>, <<"c", "h", "m">>, <<"c", "p", "i", "o">>,
             <<"r", "p", "m">>, <<"7", "z", "i", "p">>, <<"i", "s", "o">>, <<"t", "n", "e", "f">>, <<"d", "b", "x">>, <<"s", "y", "s">>, <<"o", "l", "e">>,
             <<"e", "x", "e", "c">>, <<"w", "i", "n", "e", "x", "e", "c">>, <<"i", "n", "s", "t", "a", "l", "l">>, <<"d", "m", "g">>>>

\* the name of the value v of a type: that of its constant, or none
NameOf(type, v) ==
    IF v \in 1..Len(CanonicalNames(type)) THEN CanonicalNames(type)[v]
    ELSE <<>>

\* C23: for every integer value of Command, PackOption, Flag and
\* SensiOption, String() is the canonical name of the constant with that
\* value and the empty string for every other value, zero and the negative
\* values included; Command.Len() is the length of String(); Enable() and
\* Disable() are "+" and "-" followed by String().
C23_Names ==
    \A p \in Callers :
        \A type \in {"Command", "SensiOption", "Flag", "PackOption"} :
            LET v   == callers[p].v
                ret == callers[p].ret
            IN  /\ callers[p].meth = type \o ".String" =>
                      ret.s = NameOf(type, v)
                /\ callers[p].meth = type \o ".Len" =>
                      ret.v = Len(NameOf(type, v))
                /\ callers[p].meth = type \o ".Enable" =>
                      ret.s = <<"+">> \o NameOf(type, v)
                /\ callers[p].meth = type \o ".Disable" =>
                      ret.s = <<"-">> \o NameOf(type, v)

\* Command(0).String() has returned "", where the table of the source holds
\* an entry
C23_Witness ==
    \E p \in Callers :
        /\ callers[p].meth = "Command.String"
        /\ callers[p].v = 0
        /\ callers[p].pc = "done"
        /\ callers[p].ret.s = <<>>

\* C24: whenever no command is executing, that is after NewClient has
\* returned and after every command has returned, with a result or with an
\* error raised after its request was written, the deadline of the
\* connection is cleared: a deadline is armed only while NewClient awaits
\* the greeting or a command is reading its response.
C24_DeadlineCleared ==
    /\ (nc.pc # "greet" /\ \A p \in Callers :
                               callers[p].pc \in {"idle", "done"}) =>
          conn.deadline = "zero"
    /\ conn.deadline = "armed" =>
          \/ nc.pc = "greet"
          \/ \E p \in Callers :
                callers[p].pc \in {"open", "payload", "close", "line", "scan"}

\* a command has returned a read error after reading its opening line under
\* an armed deadline, and the deadline is cleared
C24_Witness ==
    \E p \in Callers :
        /\ callers[p].pc = "done"
        /\ callers[p].ret.err = ReadErr
        /\ Len(callers[p].lines) = 1
        /\ io = [op |-> "read", deadline |-> "armed"]
        /\ conn.deadline = "zero"
        /\ nc.lines # <<>>

\* the places in p's SCAN report of the lines that are no result
Malformed(p) == {i \in 1..Len(Report(p)) : NoResult(Report(p)[i])}

\* Scan has come back from a failed read after it had read a malformed line
ScanBroken(p) ==
    /\ callers[p].pc = "done"
    /\ callers[p].meth = "Scan"
    /\ Len(Texts(p)) >= 2
    /\ Texts(p)[Len(Texts(p))] # scanOkResp
    /\ \E i \in 2..Len(Texts(p)) : NoResult(Texts(p)[i])

\* C25 as stated: after a report with malformed lines and no failed read,
\* Scan returns the invalid-response error of the first malformed line; when
\* a read fails after malformed lines, it returns the transport error.
C25_FirstMalformed ==
    \A p \in Callers :
        /\ (ScanDone(p) /\ Malformed(p) # {}) =>
              LET i == CHOOSE k \in Malformed(p) :
                           \A j \in Malformed(p) : k <= j
              IN  callers[p].ret.err =
                      [kind |-> "invalid", line |-> Report(p)[i]]
        /\ ScanBroken(p) => callers[p].ret.err = ReadErr

\* C25 amended: after a report with malformed lines and no failed read,
\* Scan returns the invalid-response error of the last malformed line; when
\* a read fails after malformed lines, it returns the transport error.
C25_LastMalformed ==
    \A p \in Callers :
        /\ (ScanDone(p) /\ Malformed(p) # {}) =>
              LET i == CHOOSE k \in Malformed(p) :
                           \A j \in Malformed(p) : k >= j
              IN  callers[p].ret.err =
                      [kind |-> "invalid", line |-> Report(p)[i]]
        /\ ScanBroken(p) => callers[p].ret.err = ReadErr

\* the report "SCAN a", "x": the error names "x"
C25_Witness ==
    \E p \in Callers :
        /\ ScanDone(p)
        /\ Report(p) = <<<<"S", "C", "A", "N", " ", "a">>, <<"x">>>>
        /\ callers[p].ret.err = [kind |-> "invalid", line |-> <<"x">>]

\* a read has failed after the malformed line "x" was read
C25_WitnessBroken ==
    \E p \in Callers :
        /\ ScanBroken(p)
        /\ Texts(p)[2] = <<"x">>
        /\ callers[p].ret.err = ReadErr

\* the number of lines the response of a command holds, as p has read it
ResponseLines(p) ==
    CASE callers[p].meth = "Close" -> 0
      [] callers[p].meth = "CheckURL" -> 1
      [] callers[p].meth = "Scan" -> Len(callers[p].rs) + 2
      [] callers[p].meth \in {"GetExclude", "SetExclude"} ->
           IF Texts(p)[2] = <<"2", "0", "0", " ", "E", "X", "C", "L", "U", "D", "E", " ", "O", "K">> THEN 2 ELSE 3
      [] OTHER -> 3

\* C26: against a daemon that follows the wire format, and as long as no
\* read has failed, a command that returns without error has read its whole
\* response (three lines, two for EXCLUDE answered by the sentinel, one for
\* CHECKURL, none for QUIT, the opening line, the results and the sentinel
\* for SCAN) and nothing else, so the next command starts at the first line
\* of its own response and never reads a line left by an earlier one.
C26_ReaderAligned ==
    ~readFailed =>
        \A p \in Callers :
            /\ OwnLines(p)
            /\ (callers[p].pc = "done" /\ callers[p].ret.err = NoErr) =>
                  /\ Len(callers[p].lines) = ResponseLines(p)
                  /\ stream = <<>>
                  /\ callers[p].meth # "Close" => inbox = <<>>

\* the second command in a row has returned without error: a SetExclude
\* answered by the sentinel, which has read its two lines and left none
C26_Witness ==
    /\ calls = 2
    /\ ~readFailed
    /\ callers[1].meth = "SetExclude"
    /\ callers[1].pc = "done"
    /\ callers[1].ret.err = NoErr
    /\ Len(callers[1].lines) = 2
    /\ callers[1].id = 1
    /\ stream = <<>>

\* C27: every command that is called eventually returns, given that each
\* read and each write completes or fails; the response turn is given up on
\* every way out, and a command whose request write failed, which returns
\* without taking a response turn, leaves no later command waiting for its
\* turn to read.
C27_Returns ==
    \A p \in Callers :
        (callers[p].pc \notin {"idle", "done"}) ~>
            (callers[p].pc = "done" \/ crashed)

\* a command has returned a write error without taking its response turn,
\* and a command called after it has returned too
C27_Witness ==
    \E p, q \in Callers :
        /\ callers[p].pc = "done"
        /\ callers[q].pc = "done"
        /\ callers[p].ret.err = WriteErr
        /\ callers[p].id < callers[q].id
        /\ pipeline.response <= callers[p].id

\* the socket the last attempt of dial opened is still open
SocketOpen ==
    /\ nc.attempts # <<>>
    /\ nc.attempts[Len(nc.attempts)] = "ok"
    /\ ~conn.closed

\* C28: when NewClient returns an error, no socket it opened is still open;
\* when it returns no error, the client holds an open connection whose
\* greeting, a 220 line, has been read.
C28_NoSocketLeft ==
    nc.pc = "done" =>
        IF nc.err # NoErr
        THEN ~SocketOpen
        ELSE /\ SocketOpen
             /\ Len(nc.lines) = 1
             /\ SubSeq(nc.lines[1], 1, 4) = <<"2", "2", "0", " ">>

\* the dial succeeded, the daemon greeted with "421 BUSY", NewClient has
\* returned the error and the socket is closed
C28_Witness ==
    /\ nc.pc = "done"
    /\ nc.attempts = <<"ok">>
    /\ nc.lines = <<<<"4", "2", "1", " ", "B", "U", "S", "Y">>>>
    /\ nc.err # NoErr
    /\ conn.closed

TimedOut == {k \in 1..Len(nc.attempts) : nc.attempts[k] = "timeout"}

\* C30 as stated: dial sleeps only between attempts: when it returns, the
\* number of sleeps is the number of attempts minus one, so a dial whose
\* last permitted attempt timed out returns without sleeping after it.
C30_SleepsBetweenAttempts ==
    nc.pc = "dialed" => nc.sleeps = Len(nc.attempts) - 1

\* C30 amended: dial sleeps after every attempt that timed out, the last
\* permitted one included: the number of sleeps is the number of timed-out
\* attempts, and a dial that returns a timeout has slept as many times as it
\* has attempted, connRetries + 1.
C30_SleepAfterEveryTimeout ==
    /\ nc.pc \in {"dial", "dialed"} => nc.sleeps = Cardinality(TimedOut)
    /\ nc.pc = "sleep" => nc.sleeps = Cardinality(TimedOut) - 1
    /\ (nc.pc = "dialed" /\ nc.attempts[Len(nc.attempts)] = "timeout") =>
          /\ nc.sleeps = Len(nc.attempts)
          /\ nc.sleeps = nc.c.connRetries + 1

\* with no retry, the only attempt timed out and dial has slept once before
\* returning the timeout
C30_Witness ==
    /\ nc.pc = "dialed"
    /\ nc.c.connRetries = 0
    /\ nc.attempts = <<"timeout">>
    /\ nc.sleeps = 1
    /\ nc.err.kind = "timeout"

====
